---- MODULE Spec2Model ----
(***************************************************************************)
(* Model of reckless_github/src/repository.rs: the Github repository       *)
(* backend (new, index_repository, init, list, get_plugin_by_name) run     *)
(* against a working tree found at url.path_string.                        *)
(*                                                                         *)
(* File names are sequences of one-character strings, so that is_hidden    *)
(* (starts_with(".")) and the marker-file match are computed on the name;  *)
(* InvalidByte stands for a byte that makes a name not UTF-8.              *)
(***************************************************************************)
EXTENDS Naturals, Sequences, FiniteSets, TLC

VARIABLES
    tree,         \* the working tree of the repository (what a clone puts at path_string)
    present,      \* whether path_string exists on disk
    plugins,      \* Github.plugins
    origins,      \* for each element of plugins, the walk entry (plugin_path.path()) it was built for
    task,         \* the future of index_repository or init that is suspended at an .await, if any
    last,         \* the last operation called and what it returned ("Pending" until it returns)
    before,       \* Github.plugins when the last operation was called
    streak,       \* consecutive index_repository calls that returned Ok, ending at the last operation
    everOk,       \* some init call has returned Ok
    directIndex,  \* index_repository has been called directly (not through init)
    cancelled,    \* a future has been dropped before it returned
    changed,      \* another task has changed the tree
    runs          \* number of indexing passes started

vars ==
    <<tree, present, plugins, origins, task, last, before, streak, everOk, directIndex,
      cancelled, changed, runs>>

-----------------------------------------------------------------------------
(* Bounds *)

MaxChildren == 2    \* entries directly under the repository root
MaxEntries == 2     \* files listed in one plugin directory (configuration files not counted)
MaxRuns == 2        \* indexing passes in one behaviour

-----------------------------------------------------------------------------
(* Names *)

NameA == <<"a">>
NameB == <<"b">>
NameUpperA == <<"A">>
NameHidden == <<".", "h">>
InvalidByte == "\\xFF"
NameRaw == <<".", InvalidByte>>
BaseName == <<"r">>
Readme == <<"R", "E", "A", "D", "M", "E">>

RequirementsTxt == <<"r","e","q","u","i","r","e","m","e","n","t","s",".","t","x","t">>
GoMod == <<"g","o",".","m","o","d">>
CargoToml == <<"c","a","r","g","o",".","t","o","m","l">>
PubspecYaml == <<"p","u","b","s","p","e","c",".","y","a","m","l">>
PackageJson == <<"p","a","c","k","a","g","e",".","j","s","o","n">>
TsconfigJson == <<"t","s","c","o","n","f","i","g",".","j","s","o","n">>

RecklessYaml == <<"r","e","c","k","l","e","s","s",".","y","a","m","l">>
RecklessYml == <<"r","e","c","k","l","e","s","s",".","y","m","l">>

-----------------------------------------------------------------------------
(* Values *)

\* Option<Conf> and Option<Plugin>
Some(v) == [some |-> TRUE, val |-> v]
NoConf == [some |-> FALSE, val |-> [name |-> ""]]
NoPlugin ==
    [some |-> FALSE, val |-> [name |-> <<>>, path |-> <<>>, lang |-> "Unknown", conf |-> NoConf]]

\* State of a file that may be opened as a configuration: not there, there
\* but read_to_string fails (a directory of that name, or bytes that are not
\* UTF-8), or its text.
Absent == "absent"
Unreadable == "unreadable"
TextA == "name: a"
TextB == "name: b"
TextBad == "name: ["
ConfTexts == {TextA, TextB, TextBad}
ConfStates == {Absent, Unreadable} \cup ConfTexts

Last(s) == s[Len(s)]
Front(s) == SubSeq(s, 1, Len(s) - 1)

-----------------------------------------------------------------------------
(* The working tree at url.path_string, a directory <BaseName>/<tree.name>: *)
(* tree = [name, children, beside], where beside = [yaml, yml] is the two   *)
(* configuration file names in <BaseName>, the directory that holds the    *)
(* root.                                                                   *)
(* A child of the root is [name, kind, entries, yaml, yml, text]:          *)
(* kind "dir": a directory listing `entries` plus the configuration files  *)
(* that are there (yaml, yml); kind "file": a regular file holding `text`; *)
(* kind "ioerr": a record of the root directory that read_dir cannot turn  *)
(* into an entry.  fs = [present, tree] is what the walks and opens see.   *)

Dir(n, es, y1, y2) ==
    [name |-> n, kind |-> "dir", entries |-> es, yaml |-> y1, yml |-> y2, text |-> Absent]
RegularFile(n, txt) ==
    [name |-> n, kind |-> "file", entries |-> <<>>, yaml |-> Absent, yml |-> Absent, text |-> txt]
IoErr(n) ==
    [name |-> n, kind |-> "ioerr", entries |-> <<>>, yaml |-> Absent, yml |-> Absent, text |-> Absent]

Beside(y1, y2) == [yaml |-> y1, yml |-> y2]
NoBeside == Beside(Absent, Absent)

RootPath(fs) == <<BaseName, fs.tree.name>>

\* The names read_dir lists in a plugin directory.
Listing(c) ==
    c.entries
      \o (IF c.yaml # Absent THEN <<RecklessYaml>> ELSE <<>>)
      \o (IF c.yml # Absent THEN <<RecklessYml>> ELSE <<>>)

\* The children of the root called n (at most one: names in a directory are unique).
ChildrenNamed(fs, n) ==
    {i \in 1..Len(fs.tree.children) : fs.tree.children[i].name = n}

ChildAt(fs, n) == fs.tree.children[CHOOSE i \in ChildrenNamed(fs, n) : TRUE]

\* A walk yields Ok(DirEntry) or Err; a DirEntry has its path and its depth.
OkEntry(p, d) == [ok |-> TRUE, path |-> p, depth |-> d]
ErrEntry == [ok |-> FALSE, path |-> <<>>, depth |-> 0]

file_name(entry) == Last(entry.path)

\* OsStr::to_str: Some for a name that is UTF-8.
IsUtf8(name) == \A i \in 1..Len(name) : name[i] # InvalidByte

\* WalkDir::new(path).max_depth(1).into_iter(): the path itself at depth 0,
\* then its directory records at depth 1, in the order read_dir gives them.
\* No min_depth is set, so the depth-0 entry is part of the walk.
WalkDir(fs, path) ==
    IF ~fs.present THEN <<ErrEntry>>
    ELSE IF path = RootPath(fs) THEN
        <<OkEntry(path, 0)>>
          \o [i \in 1..Len(fs.tree.children) |->
                IF fs.tree.children[i].kind = "ioerr" THEN ErrEntry
                ELSE OkEntry(path \o <<fs.tree.children[i].name>>, 1)]
    ELSE IF Len(path) = 3 /\ Front(path) = RootPath(fs) /\ ChildrenNamed(fs, path[3]) # {} THEN
        LET c == ChildAt(fs, path[3]) IN
        IF c.kind = "ioerr" THEN <<ErrEntry>>
        ELSE <<OkEntry(path, 0)>>
               \o [i \in 1..Len(Listing(c)) |-> OkEntry(path \o <<Listing(c)[i]>>, 1)]
    ELSE <<ErrEntry>>

\* is_hidden, mutated: nothing is hidden.
is_hidden_never(entry) == FALSE

\* is_hidden(entry): the file name is UTF-8 and starts with ".".
is_hidden(entry) ==
    LET s == file_name(entry) IN
    IF IsUtf8(s) THEN Len(s) > 0 /\ s[1] = "." ELSE FALSE

\* .filter_entry(|e| !is_hidden(e)): an Ok entry that is hidden is skipped and
\* not descended into (a hidden depth-0 entry ends the walk); an Err passes.
RECURSIVE filter_entry(_, _)
filter_entry(items, i) ==
    IF i > Len(items) THEN <<>>
    ELSE IF items[i].ok /\ is_hidden(items[i]) THEN
        (IF items[i].depth = 0 THEN <<>> ELSE filter_entry(items, i + 1))
    ELSE <<items[i]>> \o filter_entry(items, i + 1)

target_dirs(fs) == filter_entry(WalkDir(fs, RootPath(fs)), 1)

\* File::open(path) then read_to_string, for "<dir>/<file>": a file in the
\* directory that holds the root, a file directly under the root, or a
\* configuration file of a directory under the root.  A directory opens and
\* cannot be read.  path_to_plugin is never any other directory.
FileAt(fs, dir, file) ==
    IF dir = <<BaseName>> THEN
        (IF file = fs.tree.name THEN (IF fs.present THEN Unreadable ELSE Absent)
         ELSE IF file = RecklessYaml THEN fs.tree.beside.yaml
         ELSE IF file = RecklessYml THEN fs.tree.beside.yml
         ELSE Absent)
    ELSE IF ~fs.present THEN Absent
    ELSE IF dir = RootPath(fs) THEN
        (IF ChildrenNamed(fs, file) = {} THEN Absent
         ELSE IF ChildAt(fs, file).kind = "file" THEN ChildAt(fs, file).text
         ELSE IF ChildAt(fs, file).kind = "dir" THEN Unreadable
         ELSE Absent)
    ELSE IF Len(dir) = 3 /\ Front(dir) = RootPath(fs)
              /\ ChildrenNamed(fs, dir[3]) # {} /\ ChildAt(fs, dir[3]).kind = "dir"
    THEN (IF file = RecklessYaml THEN ChildAt(fs, dir[3]).yaml
          ELSE IF file = RecklessYml THEN ChildAt(fs, dir[3]).yml
          ELSE Absent)
    ELSE Absent

-----------------------------------------------------------------------------
(* One plugin directory *)

\* reckless_lib::utils::get_plugin_info_from_path(path): (path_to_plugin,
\* plugin_name) are the directory that holds the path and that directory's
\* name; an error for a path that no named directory holds.
get_plugin_info_from_path(path) ==
    IF Len(path) < 2
    THEN [ok |-> FALSE, path_to_plugin |-> <<>>, plugin_name |-> <<>>]
    ELSE [ok |-> TRUE, path_to_plugin |-> Front(path), plugin_name |-> Last(Front(path))]

\* The match on file_name; "continue" stands for the `_ => continue` arm.
MarkerLang(name) ==
    CASE name = RequirementsTxt -> "Python"
      [] name = GoMod -> "Go"
      [] name = CargoToml -> "Rust"
      [] name = PubspecYaml -> "Dart"
      [] name = PackageJson -> "JavaScript"
      [] name = TsconfigJson -> "TypeScript"
      [] OTHER -> "continue"

\* The `for file in files` loop; st = [panic, path_to_plugin, plugin_name, plugin_lang].
\* It panics on an Err of the walk (file.unwrap(), line 69), on an Err of
\* get_plugin_info_from_path (line 71) and on a file name that is not UTF-8
\* (to_str().unwrap(), line 73).
RECURSIVE ScanFiles(_, _, _)
ScanFiles(files, i, st) ==
    IF i > Len(files) THEN st
    ELSE IF ~files[i].ok THEN [st EXCEPT !.panic = TRUE]
    ELSE LET info == get_plugin_info_from_path(files[i].path)
             lang == MarkerLang(file_name(files[i]))
         IN IF ~info.ok \/ ~IsUtf8(file_name(files[i])) THEN [st EXCEPT !.panic = TRUE]
            ELSE ScanFiles(files, i + 1,
                    [panic |-> FALSE,
                     path_to_plugin |-> info.path_to_plugin,
                     plugin_name |-> info.plugin_name,
                     plugin_lang |-> IF lang = "continue" THEN st.plugin_lang ELSE lang])

ScanStart ==
    [panic |-> FALSE, path_to_plugin |-> <<>>, plugin_name |-> <<>>, plugin_lang |-> "Unknown"]

\* serde_yaml::from_str::<Conf>: the Conf of a well-formed text, or an error.
serde_yaml_from_str(text) ==
    CASE text = TextA -> [ok |-> TRUE, conf |-> [name |-> "a"]]
      [] text = TextB -> [ok |-> TRUE, conf |-> [name |-> "b"]]
      [] OTHER -> [ok |-> FALSE, conf |-> [name |-> ""]]

ConfCandidates == <<RecklessYaml, RecklessYml>>

\* Plugin::new(name, path, lang, conf)
Plugin(name, path, lang, conf) == [name |-> name, path |-> path, lang |-> lang, conf |-> conf]

-----------------------------------------------------------------------------
(* The future of index_repository.  It runs from one .await to the next:   *)
(* File::open(conf_path).await (pc "open") and read_to_string(..).await    *)
(* (pc "read").  A run gives [t, ps, os, res]: the suspended future t (res *)
(* "Pending") or what the call ends with, and self.plugins with the walk   *)
(* entries its elements were built for.                                    *)

Idle ==
    [pc |-> "idle", op |-> "", fixed |-> FALSE, listed |-> FALSE, rest |-> <<>>,
     cur |-> <<>>, path_to_plugin |-> <<>>, plugin_name |-> <<>>, plugin_lang |-> "Unknown",
     k |-> 0, conf |-> NoConf, opened |-> Absent]

Ended(res, ps, os) == [t |-> Idle, ps |-> ps, os |-> os, res |-> res]
Suspended(t, ps, os) == [t |-> t, ps |-> ps, os |-> os, res |-> "Pending"]

\* Ok(plugin_path): the scan of the files, up to the first File::open(..).await.
StartDir(fs, t, plugin_path, ps, os) ==
    LET st == ScanFiles(WalkDir(fs, plugin_path.path), 1, ScanStart) IN
    IF st.panic THEN Ended("Panic", ps, os)
    ELSE Suspended([t EXCEPT !.pc = "open", !.cur = plugin_path.path,
                             !.path_to_plugin = st.path_to_plugin,
                             !.plugin_name = st.plugin_name,
                             !.plugin_lang = st.plugin_lang,
                             !.k = 1, !.conf = NoConf, !.opened = Absent], ps, os)

\* Plugin::new, self.plugins.push(plugin), and the next item of target_dirs.
\* The walk reads the root directory when its second item is asked for.
PushAndNext(fs, t, ps, os) ==
    LET ps2 == Append(ps, Plugin(t.plugin_name, t.path_to_plugin, t.plugin_lang, t.conf))
        os2 == Append(os, t.cur)
        dirs == target_dirs(fs)
        rest == IF t.listed THEN t.rest ELSE IF dirs = <<>> THEN <<>> ELSE Tail(dirs)
    IN IF rest = <<>> THEN Ended("Ok", ps2, os2)
       ELSE IF ~rest[1].ok THEN Ended("Err", ps2, os2)
       ELSE StartDir(fs, [t EXCEPT !.listed = TRUE, !.rest = Tail(rest)], rest[1], ps2, os2)

\* The end of one round of `for file in ["reckless.yaml", "reckless.yml"]`.
AfterCandidate(fs, t, ps, os) ==
    IF t.k < Len(ConfCandidates)
    THEN Suspended([t EXCEPT !.pc = "open", !.k = t.k + 1, !.opened = Absent], ps, os)
    ELSE PushAndNext(fs, t, ps, os)

\* From an .await to the next: a file that does not open is passed over, a
\* failed read returns Err (`?`), a failed parse panics (unwrap), a parsed
\* Conf overwrites conf.
Resume(fs, t, ps, os) ==
    IF t.pc = "open" THEN
        LET content == FileAt(fs, t.path_to_plugin, ConfCandidates[t.k]) IN
        IF content = Absent THEN AfterCandidate(fs, t, ps, os)
        ELSE Suspended([t EXCEPT !.pc = "read", !.opened = content], ps, os)
    ELSE IF t.opened = Unreadable THEN Ended("Err", ps, os)
    ELSE IF ~serde_yaml_from_str(t.opened).ok THEN Ended("Panic", ps, os)
    ELSE AfterCandidate(fs,
            [t EXCEPT !.conf = Some(serde_yaml_from_str(t.opened).conf), !.opened = Absent],
            ps, os)

\* The call, up to its first .await: the first item of target_dirs.
Begin(fs, ps, os) ==
    LET dirs == target_dirs(fs) IN
    IF dirs = <<>> THEN Ended("Ok", ps, os)
    ELSE IF ~dirs[1].ok THEN Ended("Err", ps, os)
    ELSE StartDir(fs, Idle, dirs[1], ps, os)

\* index_repository polled to its end over a tree that does not change.
RECURSIVE RunOn(_, _)
RunOn(fs, r) == IF r.res # "Pending" THEN r ELSE RunOn(fs, Resume(fs, r.t, r.ps, r.os))

IndexPass(fs, ps, os) == RunOn(fs, Begin(fs, ps, os))

\* The loop of get_plugin_by_name, mutated: the last match is returned.
RECURSIVE ScanPluginsBack(_, _, _)
ScanPluginsBack(ps, name, i) ==
    IF i < 1 THEN NoPlugin
    ELSE IF ps[i].name = name THEN Some(ps[i])
    ELSE ScanPluginsBack(ps, name, i - 1)

FindPluginLast(ps, name) == ScanPluginsBack(ps, name, Len(ps))

\* The loop of get_plugin_by_name.
RECURSIVE ScanPlugins(_, _, _)
ScanPlugins(ps, name, i) ==
    IF i > Len(ps) THEN NoPlugin
    ELSE IF ps[i].name = name THEN Some(ps[i])
    ELSE ScanPlugins(ps, name, i + 1)

FindPlugin(ps, name) == ScanPlugins(ps, name, 1)

-----------------------------------------------------------------------------
(* The trees a behaviour starts from *)

Injective(f) == \A i, j \in DOMAIN f : i # j => f[i] # f[j]

SeqsUpTo(S, n) == UNION {[1..k -> S] : k \in 0..n}

UniqueNames(cs) == \A i, j \in DOMAIN cs : i # j => cs[i].name # cs[j].name

TreesOver(rootNames, children, besides) ==
    {[name |-> r, children |-> cs, beside |-> b] :
        r \in rootNames, b \in besides,
        cs \in {x \in SeqsUpTo(children, MaxChildren) : UniqueNames(x)}}

EntryNames == {GoMod, PackageJson, Readme}
EntryLists == {es \in SeqsUpTo(EntryNames, MaxEntries) : Injective(es)}

\* A directory with any listing and no configuration, a directory named as
\* a marker, a hidden directory, regular files, a directory whose name is not
\* UTF-8, a record that cannot be read.
LangChildren ==
    {Dir(NameA, es, Absent, Absent) : es \in EntryLists}
      \cup {Dir(GoMod, es, Absent, Absent) : es \in {<<>>, <<PackageJson>>}}
      \cup {Dir(NameHidden, es, Absent, Absent) : es \in {<<>>, <<GoMod>>}}
      \cup {RegularFile(n, TextA) : n \in {NameHidden, GoMod}}
      \cup {Dir(NameRaw, <<>>, Absent, Absent), IoErr(NameB)}

\* A root that lists nothing, with configuration files beside it.
EmptyRoots(besides) == TreesOver({NameA}, {}, besides)

LangTrees ==
    TreesOver({NameA, NameHidden}, LangChildren, {NoBeside})
      \cup EmptyRoots({Beside(TextB, Absent)})

\* A directory with any state of the two configuration files, a second
\* directory, and a configuration file directly under the root.
ConfChildren ==
    {Dir(NameA, <<>>, y1, y2) : y1 \in ConfStates, y2 \in ConfStates}
      \cup {Dir(NameB, <<>>, y[1], y[2]) :
               y \in {<<Absent, Absent>>, <<TextA, Absent>>, <<Absent, TextB>>}}
      \cup {RegularFile(RecklessYaml, TextB)}

ConfTrees ==
    TreesOver({NameA}, ConfChildren, {NoBeside})
      \cup EmptyRoots({Beside(y1, y2) : y1 \in ConfStates, y2 \in ConfStates})

\* A hidden directory with markers and configuration files in it, a plain
\* plugin directory, a directory whose name starts with "." and is not UTF-8.
HiddenChildren ==
    {Dir(NameHidden, es, y[1], y[2]) :
        es \in {<<>>, <<GoMod>>},
        y \in {<<Absent, Absent>>, <<TextBad, TextB>>, <<Unreadable, Absent>>}}
      \cup {Dir(NameA, <<PackageJson>>, y1, Absent) : y1 \in {Absent, TextA}}
      \cup {Dir(NameRaw, <<>>, Absent, Absent)}

HiddenTrees ==
    TreesOver({NameA}, HiddenChildren, {NoBeside})
      \cup EmptyRoots({Beside(TextBad, TextB)})

QueryNames == {NameA, NameUpperA, NameB}

\* What another task does to the tree: it removes one child of the root, or
\* creates the file go.mod under the root.
InsertAt(cs, p, c) == SubSeq(cs, 1, p - 1) \o <<c>> \o SubSeq(cs, p, Len(cs))
RemoveAt(cs, p) == SubSeq(cs, 1, p - 1) \o SubSeq(cs, p + 1, Len(cs))

\* git2::Repository::clone leaves the work tree of the remote and the
\* directory .git at path_string; read_dir gives .git at any place.
GitDir == Dir(<<".", "g", "i", "t">>, <<>>, Absent, Absent)

Cloned(t) ==
    IF \E i \in 1..Len(t.children) : t.children[i].name = GitDir.name THEN {t}
    ELSE {[t EXCEPT !.children = InsertAt(t.children, p, GitDir)] :
            p \in 1..(Len(t.children) + 1)}

Mutations(t) ==
    {[t EXCEPT !.children = RemoveAt(t.children, p)] : p \in 1..Len(t.children)}
      \cup {[t EXCEPT !.children = InsertAt(t.children, p, RegularFile(GoMod, TextA))] :
              p \in {q \in 1..(Len(t.children) + 1) :
                       \A i \in 1..Len(t.children) : t.children[i].name # GoMod}}

-----------------------------------------------------------------------------
(* The repository *)

Called(op, result, name, found, listed) ==
    [op |-> op, result |-> result, name |-> name, found |-> found, listed |-> listed]

\* Github::new: plugins: vec![]
New ==
    /\ plugins = <<>>
    /\ origins = <<>>
    /\ task = Idle
    /\ last = Called("new", "Ok", <<>>, NoPlugin, <<>>)
    /\ before = <<>>
    /\ streak = 0
    /\ everOk = FALSE
    /\ directIndex = FALSE
    /\ cancelled = FALSE
    /\ changed = FALSE
    /\ runs = 0

Init ==
    /\ tree \in LangTrees
    /\ present \in BOOLEAN
    /\ New

InitConf ==
    /\ tree \in ConfTrees
    /\ present \in BOOLEAN
    /\ New

InitHidden ==
    /\ tree \in HiddenTrees
    /\ present \in BOOLEAN
    /\ New

\* A method can be called: no future borrows the Github (&mut self).  A
\* panic unwinds through the call and releases the borrow.
Callable == task.pc = "idle"

\* What the caller gets when the indexing pass ends with res: init returns
\* the result of clone_recursive_fix after a pass that returned Ok (lines 136-138).
Returned(op, fixed, res) == IF op = "init" /\ res = "Ok" /\ ~fixed THEN "Err" ELSE res

\* The indexing pass has run up to an .await or to its end.
Ran(op, fixed, r) ==
    /\ plugins' = r.ps
    /\ origins' = r.os
    /\ IF r.res = "Pending"
       THEN /\ task' = [r.t EXCEPT !.op = op, !.fixed = fixed]
            /\ last' = Called(op, "Pending", <<>>, NoPlugin, <<>>)
            /\ UNCHANGED <<streak, everOk>>
       ELSE /\ task' = Idle
            /\ last' = Called(op, Returned(op, fixed, r.res), <<>>, NoPlugin, <<>>)
            /\ streak' = IF op = "index_repository" /\ r.res = "Ok" THEN streak + 1 ELSE 0
            /\ everOk' = (everOk \/ (op = "init" /\ Returned(op, fixed, r.res) = "Ok"))

\* pub async fn index_repository(&mut self), called and polled to its first .await
index_repository ==
    /\ Callable
    /\ runs < MaxRuns
    /\ Ran("index_repository", FALSE,
           Begin([present |-> present, tree |-> tree], plugins, origins))
    /\ before' = plugins
    /\ directIndex' = TRUE
    /\ runs' = runs + 1
    /\ UNCHANGED <<tree, present, cancelled, changed>>

\* async fn init(&mut self), called and polled to its first .await.
\* Before the call, tree is what the remote holds when nothing is at
\* path_string.  git2::Repository::clone fails when the remote cannot be
\* fetched or path_string is there and not an empty directory;
\* clone_recursive_fix returns Ok or Err.
init(fetched, fixed) ==
    /\ Callable
    /\ IF fetched /\ (~present \/ tree.children = <<>>)
       THEN /\ runs < MaxRuns
            /\ tree' \in Cloned(tree)
            /\ Ran("init", fixed, Begin([present |-> TRUE, tree |-> tree'], plugins, origins))
            /\ present' = TRUE
            /\ runs' = runs + 1
       ELSE /\ last' = Called("init", "Err", <<>>, NoPlugin, <<>>)
            /\ UNCHANGED <<plugins, origins, task, tree, present, everOk, runs>>
            /\ streak' = 0
    /\ before' = plugins
    /\ UNCHANGED <<directIndex, cancelled, changed>>

\* The executor polls the suspended future: it runs to its next .await or returns.
resume ==
    /\ task.pc # "idle"
    /\ Ran(task.op, task.fixed,
           Resume([present |-> present, tree |-> tree], task, plugins, origins))
    /\ UNCHANGED <<tree, present, before, directIndex, cancelled, changed, runs>>

\* The caller drops the suspended future (select!, timeout): the call never returns.
drop ==
    /\ task.pc # "idle"
    /\ task' = Idle
    /\ last' = Called(task.op, "Dropped", <<>>, NoPlugin, <<>>)
    /\ streak' = 0
    /\ cancelled' = TRUE
    /\ UNCHANGED <<tree, present, plugins, origins, before, everOk, directIndex, changed, runs>>

\* Another task of the runtime runs while the future is suspended and changes the tree.
change_tree ==
    /\ task.pc # "idle"
    /\ ~changed
    /\ tree' \in Mutations(tree)
    /\ changed' = TRUE
    /\ UNCHANGED <<present, plugins, origins, task, last, before, streak, everOk,
                   directIndex, cancelled, runs>>

\* async fn list(&self)
list ==
    /\ Callable
    /\ last' = Called("list", "Ok", <<>>, NoPlugin, plugins)
    /\ before' = plugins
    /\ streak' = 0
    /\ UNCHANGED <<tree, present, plugins, origins, task, everOk, directIndex,
                   cancelled, changed, runs>>

\* fn get_plugin_by_name(&self, name: &str)
get_plugin_by_name(name) ==
    /\ Callable
    /\ last' = Called("get_plugin_by_name", "Ok", name, FindPlugin(plugins, name), <<>>)
    /\ before' = plugins
    /\ streak' = 0
    /\ UNCHANGED <<tree, present, plugins, origins, task, everOk, directIndex,
                   cancelled, changed, runs>>

Next ==
    \/ index_repository
    \/ \E fetched \in BOOLEAN, fixed \in BOOLEAN : init(fetched, fixed)
    \/ resume
    \/ drop
    \/ change_tree
    \/ list
    \/ \E name \in QueryNames : get_plugin_by_name(name)

Spec == Init /\ [][Next]_vars
SpecConf == InitConf /\ [][Next]_vars
SpecHidden == InitHidden /\ [][Next]_vars

-----------------------------------------------------------------------------
(* What the claims speak of, read off the tree itself *)

Min(S) == CHOOSE x \in S : \A y \in S : x <= y
Max(S) == CHOOSE x \in S : \A y \in S : x >= y

DotPrefixed(name) == name[1] = "."

Markers == {RequirementsTxt, GoMod, CargoToml, PubspecYaml, PackageJson, TsconfigJson}

MarkerTable(name) ==
    IF name = RequirementsTxt THEN "Python"
    ELSE IF name = GoMod THEN "Go"
    ELSE IF name = CargoToml THEN "Rust"
    ELSE IF name = PubspecYaml THEN "Dart"
    ELSE IF name = PackageJson THEN "JavaScript"
    ELSE "TypeScript"

\* The language the marker table gives the last marker among the entries of c.
LastMarkerLang(c) ==
    LET L == Listing(c)
        M == {k \in 1..Len(L) : L[k] \in Markers}
    IN IF M = {} THEN "Unknown" ELSE MarkerTable(L[Max(M)])

Children == {tree.children[i] : i \in 1..Len(tree.children)}
ChildPath(c) == <<BaseName, tree.name, c.name>>

\* The paths of the non-hidden directories directly under the root, in order.
RECURSIVE PluginDirPaths(_)
PluginDirPaths(i) ==
    IF i > Len(tree.children) THEN <<>>
    ELSE LET c == tree.children[i] IN
         (IF c.kind = "dir" /\ ~DotPrefixed(c.name) THEN <<ChildPath(c)>> ELSE <<>>)
           \o PluginDirPaths(i + 1)

\* The tree with every dot-prefixed child of the root emptied.
StrippedTree ==
    [tree EXCEPT !.children =
        [i \in 1..Len(tree.children) |->
            IF DotPrefixed(tree.children[i].name)
            THEN [tree.children[i] EXCEPT !.entries = <<>>, !.yaml = Absent, !.yml = Absent]
            ELSE tree.children[i]]]

\* The last call was index_repository and it has ended (it was not dropped).
IndexEnded == last.op = "index_repository" /\ last.result \in {"Ok", "Err", "Panic"}
IndexReturned(res) == last.op = "index_repository" /\ last.result = res

-----------------------------------------------------------------------------
(* Claims *)

\* C1: if index_repository returns an error, the plugin collection is exactly
\* what it was before the call.
C1_AllOrNothing == IndexReturned("Err") => plugins = before

\* C2: a second index_repository in a row over the unchanged tree leaves the
\* collection identical to the collection after the first run.
C2_ReindexOverwrites == (IndexReturned("Ok") /\ streak >= 2 /\ ~changed) => plugins = before

\* C3: while no init call has returned Ok, and only init, list and
\* get_plugin_by_name have been called and have returned, no plugin is
\* visible: the collection is empty, list returns an empty collection,
\* get_plugin_by_name finds nothing.
C3_NothingVisibleBeforeOkInit ==
    (~everOk /\ ~directIndex /\ ~cancelled /\ last.result # "Pending") =>
        /\ plugins = <<>>
        /\ last.op = "list" => last.listed = <<>>
        /\ last.op = "get_plugin_by_name" => ~last.found.some

\* C4: after a successful indexing pass on an empty collection, the plugins
\* were built for exactly the non-hidden directories directly under the root,
\* one each.
C4_OnePluginPerDirectory ==
    (IndexReturned("Ok") /\ before = <<>> /\ ~changed) => origins = PluginDirPaths(1)

\* C5: the language of the plugin built for a plugin directory is the marker
\* table's value for the last marker among the directory's entries, Unknown
\* when no entry is a marker.
C5_LastMarkerWins ==
    (~changed /\ ~cancelled /\ last.result # "Pending") =>
        \A i \in 1..Len(plugins) : \A c \in Children :
            (c.kind = "dir" /\ origins[i] = ChildPath(c)) => plugins[i].lang = LastMarkerLang(c)

\* C6: the configuration of the plugin built for a plugin directory is the
\* one parsed from reckless.yml when that file is there, else the one parsed
\* from reckless.yaml when that file is there, else absent; and a pass over
\* directories without configuration files does not fail.
C6_LastCandidateWins ==
    (~changed /\ ~cancelled /\ last.result # "Pending") =>
        /\ \A i \in 1..Len(plugins) : \A c \in Children :
              (c.kind = "dir" /\ origins[i] = ChildPath(c)) =>
                  /\ c.yml # Absent => plugins[i].conf = Some(serde_yaml_from_str(c.yml).conf)
                  /\ (c.yml = Absent /\ c.yaml # Absent) =>
                        plugins[i].conf = Some(serde_yaml_from_str(c.yaml).conf)
                  /\ (c.yml = Absent /\ c.yaml = Absent) => plugins[i].conf = NoConf
        /\ (IndexEnded /\ present
              /\ \A c \in Children : c.kind = "dir" /\ c.yaml = Absent /\ c.yml = Absent)
             => last.result = "Ok"

\* C7: when a configuration file of a plugin directory is there and fails to
\* parse, index_repository returns an error.
C7_MalformedConfigurationIsAnError ==
    (IndexEnded /\ present /\ ~changed
       /\ \E c \in Children :
            c.kind = "dir" /\ ~DotPrefixed(c.name) /\ (c.yaml = TextBad \/ c.yml = TextBad))
      => last.result = "Err"

\* C8: get_plugin_by_name returns the plugin at the lowest index whose name
\* equals the query, not-found when there is none, and leaves the collection
\* as it was.
C8_FirstMatch ==
    last.op = "get_plugin_by_name" =>
        /\ plugins = before
        /\ LET M == {i \in 1..Len(plugins) : plugins[i].name = last.name} IN
           IF M = {} THEN last.found = NoPlugin
           ELSE last.found = Some(plugins[Min(M)])

W_C8_DuplicateNames ==
    /\ last.op = "get_plugin_by_name"
    /\ last.found.some
    /\ \E i, j \in 1..Len(plugins) :
          /\ i < j
          /\ plugins[i].name = last.name /\ plugins[j].name = last.name
          /\ plugins[i] # plugins[j]
    /\ \E i \in 1..Len(plugins) : plugins[i].name # last.name

\* C9: index_repository on a fresh repository whose readable root has no
\* non-hidden child returns Ok and leaves the collection empty.
C9_EmptyRootEmptyIndex ==
    (IndexEnded /\ runs = 1 /\ before = <<>> /\ present /\ ~changed
       /\ \A c \in Children : DotPrefixed(c.name) /\ IsUtf8(c.name))
      => (last.result = "Ok" /\ plugins = <<>>)

\* C10: no plugin is built for a dot-prefixed child of the root, and an
\* indexing pass over the unchanged tree gives what it gives on the tree whose
\* dot-prefixed children are emptied.
C10_HiddenNeverIndexed ==
    /\ \A i \in 1..Len(plugins) : \A c \in Children :
          DotPrefixed(c.name) => origins[i] # ChildPath(c)
    /\ (IndexEnded /\ ~changed) =>
          LET r == IndexPass([present |-> present, tree |-> StrippedTree], before, <<>>) IN
          plugins = r.ps /\ last.result = r.res

W_C10_HiddenWithContents ==
    /\ IndexReturned("Ok")
    /\ ~changed
    /\ Len(plugins) >= 2
    /\ \E c \in Children :
          DotPrefixed(c.name) /\ c.entries = <<GoMod>> /\ c.yaml = TextBad /\ c.yml = TextB

====
